---- MODULE Spec2Model ----
(***************************************************************************)
(* The image-batch OCR + question-generation pipeline of zyric-backend:    *)
(*   app/routes/question_routes.py       generate_questions                *)
(*   app/controllers/question_controller.py                                *)
(*        process_images_and_generate_questions, extract_text_from_images, *)
(*        generate_questions_from_content                                  *)
(*   app/schemas/question.py             Question, response schema         *)
(* Python str values are TLA+ strings (Len, SubSeq and \o act on them      *)
(* character by character); Python lists are sequences; None is a tagged   *)
(* record.  Spec follows one request from its entry point to its result,   *)
(* GenSpec one call of generate_questions_from_content, and LoopSpec two   *)
(* extraction coroutines that share one event loop.                        *)
(***************************************************************************)
EXTENDS Integers, Sequences, FiniteSets, TLC

VARIABLES
    pc,                  \* position of the request in the code
    entry,               \* "route" (generate_questions) or "pipeline" (direct call)
    images,              \* the uploaded files: [content_type, bytes]
    cursor,              \* read position of each uploaded file
    request,             \* subject, num_questions, difficulty, question_types
    types_list,          \* question types as handed to the pipeline
    idx,                 \* enumerate(images) index, 0-based
    attempt,             \* range(max_retries) index, 0-based
    all_extracted_text,  \* list of per-image chunks
    extracted_content,   \* the joined text
    prompt,              \* arguments of the prompt handed to llm.invoke
    llm_raw,             \* response.content of the generation call
    result,              \* the response, or the HTTPException raised
    log,                 \* capability calls and blocking steps, in order
    running,             \* the coroutine the event loop's thread is executing
    tasks                \* two requests on one event loop: position of each

vars == <<pc, entry, images, cursor, request, types_list, idx, attempt,
          all_extracted_text, extracted_content, prompt, llm_raw, result, log,
          running, tasks>>

-----------------------------------------------------------------------------
(* Bounds of the model *)

MaxImages == 2

-----------------------------------------------------------------------------
(* Python str and list operations *)

Min(a, b) == IF a < b THEN a ELSE b

Max(a, b) == IF a > b THEN a ELSE b

\* s[i] for a 1-based i
Char(s, i) == SubSeq(s, i, i)

\* s[:n]
Prefix(s, n) == SubSeq(s, 1, Min(Max(n, 0), Len(s)))

\* s[a:b] for 0-based a, b >= 0
Slice(s, a, b) == IF a >= Min(b, Len(s)) THEN "" ELSE SubSeq(s, a + 1, Min(b, Len(s)))

\* pat in s
Contains(s, pat) ==
    \E i \in 1..(Len(s) - Len(pat) + 1) : SubSeq(s, i, i + Len(pat) - 1) = pat

\* s.find(c): 0-based index of the first occurrence, -1 when absent
Find(s, c) ==
    IF \E i \in 1..Len(s) : Char(s, i) = c
    THEN (CHOOSE i \in 1..Len(s) :
              /\ Char(s, i) = c
              /\ \A j \in 1..(i - 1) : Char(s, j) # c) - 1
    ELSE -1

\* s.rfind(c): 0-based index of the last occurrence, -1 when absent
RFind(s, c) ==
    IF \E i \in 1..Len(s) : Char(s, i) = c
    THEN (CHOOSE i \in 1..Len(s) :
              /\ Char(s, i) = c
              /\ \A j \in (i + 1)..Len(s) : Char(s, j) # c) - 1
    ELSE -1

IsSpace(c) == c \in {" ", "\n", "\t", "\r"}

RECURSIVE LStrip(_)
LStrip(s) == IF Len(s) > 0 /\ IsSpace(Char(s, 1)) THEN LStrip(Tail(s)) ELSE s

RECURSIVE RStrip(_)
RStrip(s) ==
    IF Len(s) > 0 /\ IsSpace(Char(s, Len(s)))
    THEN RStrip(SubSeq(s, 1, Len(s) - 1))
    ELSE s

\* s.strip()
Strip(s) == RStrip(LStrip(s))

\* the lower-case form of each upper-case letter
LowerOf ==
    "A" :> "a" @@ "B" :> "b" @@ "C" :> "c" @@ "D" :> "d" @@ "E" :> "e" @@ "F" :> "f" @@
    "G" :> "g" @@ "H" :> "h" @@ "I" :> "i" @@ "J" :> "j" @@ "K" :> "k" @@ "L" :> "l" @@
    "M" :> "m" @@ "N" :> "n" @@ "O" :> "o" @@ "P" :> "p" @@ "Q" :> "q" @@ "R" :> "r" @@
    "S" :> "s" @@ "T" :> "t" @@ "U" :> "u" @@ "V" :> "v" @@ "W" :> "w" @@ "X" :> "x" @@
    "Y" :> "y" @@ "Z" :> "z"

LowerChar(c) == IF c \in DOMAIN LowerOf THEN LowerOf[c] ELSE c

\* s.lower()
RECURSIVE Lower(_)
Lower(s) == IF Len(s) = 0 THEN "" ELSE LowerChar(Char(s, 1)) \o Lower(Tail(s))

\* str(n) for n >= 0
RECURSIVE Str(_)
Str(n) ==
    IF n < 10 THEN Char("0123456789", n + 1)
    ELSE Str(n \div 10) \o Char("0123456789", (n % 10) + 1)

\* sep.join(parts)
RECURSIVE Join(_, _)
Join(sep, parts) ==
    IF Len(parts) = 0 THEN ""
    ELSE IF Len(parts) = 1 THEN parts[1]
    ELSE parts[1] \o sep \o Join(sep, Tail(parts))

\* c * n
RECURSIVE Rep(_, _)
Rep(c, n) ==
    IF n = 0 THEN ""
    ELSE LET h == Rep(c, n \div 2)
         IN  IF n % 2 = 0 THEN h \o h ELSE h \o h \o c

\* s.split(sep) for a one-character sep
RECURSIVE Split(_, _)
Split(s, sep) ==
    LET i == Find(s, sep)
    IN  IF i = -1 THEN <<s>>
        ELSE <<Prefix(s, i)>> \o Split(SubSeq(s, i + 2, Len(s)), sep)

-----------------------------------------------------------------------------
(* Values shared by the handlers *)

HTTP_400_BAD_REQUEST == 400

HTTP_500_INTERNAL_SERVER_ERROR == 500

NoResult == [kind |-> "none", status_code |-> 0, detail |-> ""]

\* raise HTTPException(status_code=..., detail=...)
HTTPException(status_code, detail) ==
    [kind |-> "error", status_code |-> status_code, detail |-> detail]

Ev(op, img, n) == [op |-> op, img |-> img, n |-> n]

\* Optional[List[str]]: None, or a list
NoneList == [none |-> TRUE, v |-> <<>>]

SomeList(l) == [none |-> FALSE, v |-> l]

-----------------------------------------------------------------------------
(* The uploaded files and the two external capabilities *)

\* Image.open: the bytes are identified as an image by their leading signature
ImageSignature == "IMG|"

CanDecode(image_content) ==
    /\ Len(image_content) >= Len(ImageSignature)
    /\ Prefix(image_content, Len(ImageSignature)) = ImageSignature

\* vision_model.generate_content([prompt, image]).text on success: the text
\* shown by the decoded image
OcrText(image_content) ==
    SubSeq(image_content, Len(ImageSignature) + 1, Len(image_content))

\* UploadFile.read(): the bytes from the cursor to the end of the file
FileRead(bytes, pos) == SubSeq(bytes, pos + 1, Len(bytes))

ImageOf(content_type, text) ==
    [content_type |-> content_type, bytes |-> ImageSignature \o text]

ImageFiles ==
    { ImageOf("image/jpeg", "ab"),
      ImageOf("image/png", ""),
      ImageOf("image/jpg", " \n"),
      ImageOf("image/webp", Rep("x", 483)),
      ImageOf("image/gif", "ab"),
      [content_type |-> "image/jpeg", bytes |-> "%PDF-1.4"] }

Batches == UNION { [1..n -> ImageFiles] : n \in 0..MaxImages }

\* str(e) of an exception raised by the OCR call
OcrErrors ==
    { "Timeout of 60.0s exceeded",
      "504 Deadline Exceeded",
      "403 Permission denied" }

\* str(e) of PIL's UnidentifiedImageError; it carries repr(BytesIO), whose
\* address varies from run to run
DecodeErrors ==
    { "cannot identify image file <_io.BytesIO object at 0x7f3a1c2e9d60>",
      "cannot identify image file <_io.BytesIO object at 0x7f3a1c504e50>" }

-----------------------------------------------------------------------------
(* extract_text_from_images *)

max_retries == 3

retry_delay == 2

\* Chunk with the 0-based loop index in the marker
ChunkZeroBased(i, extracted_text) ==
    "--- Image " \o Str(i) \o " ---\n" \o extracted_text \o "\n"

\* f"--- Image {idx + 1} ---\n{extracted_text}\n"
Chunk(i, extracted_text) ==
    "--- Image " \o Str(i + 1) \o " ---\n" \o extracted_text \o "\n"

\* ("timeout" in error_msg.lower() or "504" in error_msg)
IsTransient(error_msg) ==
    Contains(Lower(error_msg), "timeout") \/ Contains(error_msg, "504")

\* ShouldRetry without the bound on the attempt number
ShouldRetryUnbounded(error_msg, a) == IsTransient(error_msg)

\* the retry condition of the except block
ShouldRetry(error_msg, a) == IsTransient(error_msg) /\ a < max_retries - 1

\* ExtractionDetail with the 0-based loop index
ExtractionDetailZeroBased(i, error_msg) ==
    "Error extracting text from image " \o Str(i) \o " after "
        \o Str(max_retries) \o " attempts: " \o error_msg

\* detail of the HTTPException raised by the except block
ExtractionDetail(i, error_msg) ==
    "Error extracting text from image " \o Str(i + 1) \o " after "
        \o Str(max_retries) \o " attempts: " \o error_msg

\* ChunksAfterFailure with the marker of the image appended before the OCR
\* call has returned
ChunksAfterFailureKeepsMarker(chunks, i) == Append(chunks, Chunk(i, ""))

\* the chunks collected so far are left as they are by a failed attempt
ChunksAfterFailure(chunks, i) == chunks

\* a retry that leaves the cursor where the read left it, at the end
RetrySeekMissing(bytes) == Len(bytes)

\* the file position set by "await image_file.seek(0)" before a retry
RetrySeek(bytes) == 0

\* an except clause that gives the image up after its last failure and
\* goes on with the next image
ExceptSkipsImage(error_msg, evs) ==
    LET k == idx + 1
        kind == IF IsTransient(error_msg) THEN "transient" ELSE "fatal"
    IN  /\ cursor' = [cursor EXCEPT ![k] = Len(images[k].bytes)]
        /\ log' = log \o evs \o <<Ev(kind, k, attempt + 1)>>
        /\ all_extracted_text' = ChunksAfterFailure(all_extracted_text, idx)
        /\ IF ShouldRetry(error_msg, attempt)
           THEN /\ pc' = "backoff"
                /\ UNCHANGED <<idx, attempt>>
           ELSE IF idx + 1 < Len(images)
           THEN /\ idx' = idx + 1
                /\ attempt' = 0
                /\ pc' = "attempt"
           ELSE /\ pc' = "extracted"
                /\ UNCHANGED <<idx, attempt>>
        /\ UNCHANGED <<running, tasks>>
        /\ UNCHANGED <<entry, images, request, types_list, result,
                       extracted_content, prompt, llm_raw>>

\* the except block: retry after a delay, or raise
Except(error_msg, evs) ==
    LET k == idx + 1
        kind == IF IsTransient(error_msg) THEN "transient" ELSE "fatal"
    IN  /\ cursor' = [cursor EXCEPT ![k] = Len(images[k].bytes)]
        /\ log' = log \o evs \o <<Ev(kind, k, attempt + 1)>>
        /\ all_extracted_text' = ChunksAfterFailure(all_extracted_text, idx)
        /\ IF ShouldRetry(error_msg, attempt)
           THEN /\ pc' = "backoff"
                /\ UNCHANGED result
           ELSE /\ pc' = "done"
                /\ result' = HTTPException(HTTP_500_INTERNAL_SERVER_ERROR,
                                           ExtractionDetail(idx, error_msg))
        /\ UNCHANGED <<running, tasks>>
        /\ UNCHANGED <<entry, images, request, types_list, idx, attempt,
                       extracted_content, prompt, llm_raw>>

\* one pass of the try block in which Image.open raises
DecodeFails ==
    /\ pc = "attempt"
    /\ LET k == idx + 1
           image_content == FileRead(images[k].bytes, cursor[k])
       IN  /\ ~CanDecode(image_content)
           /\ \E error_msg \in DecodeErrors :
                  Except(error_msg, <<Ev("read", k, cursor[k]), Ev("decode", k, 0)>>)

\* one pass of the try block in which the OCR call raises
OcrFails ==
    /\ pc = "attempt"
    /\ LET k == idx + 1
           image_content == FileRead(images[k].bytes, cursor[k])
       IN  /\ CanDecode(image_content)
           /\ \E error_msg \in OcrErrors :
                  Except(error_msg, <<Ev("read", k, cursor[k]), Ev("decode", k, 0),
                                      Ev("ocr", k, 0)>>)

\* one pass of the try block that runs to its break
OcrSucceeds ==
    /\ pc = "attempt"
    /\ LET k == idx + 1
           image_content == FileRead(images[k].bytes, cursor[k])
       IN  /\ CanDecode(image_content)
           /\ all_extracted_text' =
                  Append(all_extracted_text, Chunk(idx, OcrText(image_content)))
           /\ cursor' = [cursor EXCEPT ![k] = 0]
           /\ log' = log \o <<Ev("read", k, cursor[k]), Ev("decode", k, 0),
                              Ev("ocr", k, 0), Ev("ok", k, attempt + 1),
                              Ev("seek", k, 0)>>
    /\ IF idx + 1 < Len(images)
       THEN /\ idx' = idx + 1
            /\ attempt' = 0
            /\ pc' = "attempt"
       ELSE /\ pc' = "extracted"
            /\ UNCHANGED <<idx, attempt>>
    /\ UNCHANGED <<running, tasks>>
    /\ UNCHANGED <<entry, images, request, types_list, extracted_content,
                   prompt, llm_raw, result>>

\* a delay after which the same pass of the retry loop is run again
BackoffKeepsAttempt ==
    /\ pc = "backoff"
    /\ LET k == idx + 1
       IN  /\ cursor' = [cursor EXCEPT ![k] = RetrySeek(images[k].bytes)]
           /\ log' = log \o <<Ev("sleep", k, retry_delay),
                              Ev("seek", k, RetrySeek(images[k].bytes))>>
    /\ pc' = "attempt"
    /\ UNCHANGED <<running, tasks>>
    /\ UNCHANGED <<entry, images, request, types_list, all_extracted_text,
                   extracted_content, prompt, llm_raw, result, idx, attempt>>

\* time.sleep(retry_delay); await image_file.seek(0); continue.  The for
\* loop over range(max_retries) then starts its next pass, or is exhausted
\* and the loop over the images goes on.
Backoff ==
    /\ pc = "backoff"
    /\ LET k == idx + 1
       IN  /\ cursor' = [cursor EXCEPT ![k] = RetrySeek(images[k].bytes)]
           /\ log' = log \o <<Ev("sleep", k, retry_delay),
                              Ev("seek", k, RetrySeek(images[k].bytes))>>
    /\ IF attempt + 1 < max_retries
       THEN /\ attempt' = attempt + 1
            /\ pc' = "attempt"
            /\ UNCHANGED idx
       ELSE IF idx + 1 < Len(images)
       THEN /\ idx' = idx + 1
            /\ attempt' = 0
            /\ pc' = "attempt"
       ELSE /\ pc' = "extracted"
            /\ UNCHANGED <<idx, attempt>>
    /\ UNCHANGED <<running, tasks>>
    /\ UNCHANGED <<entry, images, request, types_list, all_extracted_text,
                   extracted_content, prompt, llm_raw, result>>

-----------------------------------------------------------------------------
(* generate_questions: the route wrapper *)

MinRouteImages == 2

valid_question_types == <<"multiple_choice", "short_answer", "true_false">>

valid_difficulties == <<"easy", "medium", "hard">>

InList(x, l) == \E i \in 1..Len(l) : l[i] = x

\* [t.strip() for t in question_types.split(",")] if question_types else None
ParseTypes(question_types) ==
    IF question_types = "" THEN NoneList
    ELSE LET parts == Split(question_types, ",")
         IN  SomeList([i \in 1..Len(parts) |-> Strip(parts[i])])

\* the first element of l that is not in allowed; "" when there is none
FirstNotIn(l, allowed) ==
    IF \E i \in 1..Len(l) : ~InList(l[i], allowed)
    THEN l[CHOOSE i \in 1..Len(l) :
               /\ ~InList(l[i], allowed)
               /\ \A j \in 1..(i - 1) : InList(l[j], allowed)]
    ELSE ""

HasInvalid(l, allowed) == \E i \in 1..Len(l) : ~InList(l[i], allowed)

\* the checks of the route, in the order of the code; NoResult when all pass
RouteCheck(imgs, req) ==
    LET parsed == ParseTypes(req.question_types)
    IN  IF Len(imgs) < MinRouteImages
        THEN HTTPException(HTTP_400_BAD_REQUEST,
                 "At least 2 images are required. You provided "
                     \o Str(Len(imgs)) \o " image(s).")
        ELSE IF ~parsed.none /\ HasInvalid(parsed.v, valid_question_types)
        THEN HTTPException(HTTP_400_BAD_REQUEST,
                 "Invalid question type: "
                     \o FirstNotIn(parsed.v, valid_question_types)
                     \o ". Valid types: " \o Join(", ", valid_question_types))
        ELSE IF ~InList(req.difficulty, valid_difficulties)
        THEN HTTPException(HTTP_400_BAD_REQUEST,
                 "Invalid difficulty: " \o req.difficulty
                     \o ". Valid values: " \o Join(", ", valid_difficulties))
        ELSE NoResult

\* the request is rejected by the route
RouteRejects ==
    /\ pc = "route"
    /\ RouteCheck(images, request).kind = "error"
    /\ result' = RouteCheck(images, request)
    /\ pc' = "done"
    /\ UNCHANGED <<running, tasks>>
    /\ UNCHANGED <<entry, images, cursor, request, types_list, idx, attempt,
                   all_extracted_text, extracted_content, prompt, llm_raw, log>>

\* the route hands the request to process_images_and_generate_questions
RouteCalls ==
    /\ pc = "route"
    /\ RouteCheck(images, request).kind = "none"
    /\ types_list' = ParseTypes(request.question_types)
    /\ pc' = "pipeline"
    /\ UNCHANGED <<running, tasks>>
    /\ UNCHANGED <<entry, images, cursor, request, idx, attempt,
                   all_extracted_text, extracted_content, prompt, llm_raw,
                   result, log>>

-----------------------------------------------------------------------------
(* process_images_and_generate_questions *)

\* the minimum of the route, applied by the pipeline as well
MinPipelineImagesOfRoute == MinRouteImages

MinPipelineImages == 1

valid_types == <<"image/jpeg", "image/jpg", "image/png", "image/webp">>

ContentTypes(imgs) == [i \in 1..Len(imgs) |-> imgs[i].content_type]

\* PipelineCheck without the loop over the content types
PipelineCheckCountOnly(imgs, req, types) ==
    IF Len(imgs) < MinPipelineImages
    THEN HTTPException(HTTP_400_BAD_REQUEST, "At least one image is required")
    ELSE NoResult

\* a validation that looks at the content type of the first image alone
PipelineCheckFirstImage(imgs, req, types) ==
    IF Len(imgs) < MinPipelineImages
    THEN HTTPException(HTTP_400_BAD_REQUEST, "At least one image is required")
    ELSE IF ~InList(imgs[1].content_type, valid_types)
    THEN HTTPException(HTTP_400_BAD_REQUEST,
             "Invalid file type: " \o imgs[1].content_type
                 \o ". Allowed types: jpeg, jpg, png, webp")
    ELSE NoResult

\* the checks of the pipeline, in the order of the code; NoResult when all pass
PipelineCheck(imgs, req, types) ==
    IF Len(imgs) < MinPipelineImages
    THEN HTTPException(HTTP_400_BAD_REQUEST, "At least one image is required")
    ELSE IF HasInvalid(ContentTypes(imgs), valid_types)
    THEN HTTPException(HTTP_400_BAD_REQUEST,
             "Invalid file type: " \o FirstNotIn(ContentTypes(imgs), valid_types)
                 \o ". Allowed types: jpeg, jpg, png, webp")
    ELSE NoResult

PipelineRejects ==
    /\ pc = "pipeline"
    /\ PipelineCheck(images, request, types_list).kind = "error"
    /\ result' = PipelineCheck(images, request, types_list)
    /\ pc' = "done"
    /\ UNCHANGED <<running, tasks>>
    /\ UNCHANGED <<entry, images, cursor, request, types_list, idx, attempt,
                   all_extracted_text, extracted_content, prompt, llm_raw, log>>

\* the pipeline calls extract_text_from_images
PipelineExtracts ==
    /\ pc = "pipeline"
    /\ PipelineCheck(images, request, types_list).kind = "none"
    /\ idx' = 0
    /\ attempt' = 0
    /\ all_extracted_text' = <<>>
    /\ pc' = "attempt"
    /\ UNCHANGED <<running, tasks>>
    /\ UNCHANGED <<entry, images, cursor, request, types_list,
                   extracted_content, prompt, llm_raw, result, log>>

\* not extracted_content.strip()
NoContent(content) == Strip(content) = ""

\* extract_text_from_images returns the joined text to the pipeline, which
\* rejects it when nothing was extracted
ExtractReturns ==
    /\ pc = "extracted"
    /\ extracted_content' = Join("\n", all_extracted_text)
    /\ IF NoContent(extracted_content')
       THEN /\ result' = HTTPException(HTTP_400_BAD_REQUEST,
                             "No text could be extracted from the images")
            /\ pc' = "done"
       ELSE /\ pc' = "generate"
            /\ UNCHANGED result
    /\ UNCHANGED <<running, tasks>>
    /\ UNCHANGED <<entry, images, cursor, request, types_list, idx, attempt,
                   all_extracted_text, prompt, llm_raw, log>>

-----------------------------------------------------------------------------
(* json.loads, for documents made of arrays, objects, strings without      *)
(* escapes, non-negative integers and null.  A value is [t, v]: its JSON   *)
(* type and its content (an object is a function from its keys).           *)

JNull == [t |-> "null", v |-> ""]

JStr(x) == [t |-> "str", v |-> x]

JNum(x) == [t |-> "num", v |-> x]

JArr(x) == [t |-> "arr", v |-> x]

JObj(x) == [t |-> "obj", v |-> x]

\* a parse that failed
JFail == [ok |-> FALSE, val |-> JNull, pos |-> 0]

\* a parse that produced val and stopped before position pos
JOk(val, pos) == [ok |-> TRUE, val |-> val, pos |-> pos]

IsDigit(c) == \E i \in 1..10 : Char("0123456789", i) = c

RECURSIVE SkipWs(_, _)
SkipWs(s, i) ==
    IF i <= Len(s) /\ IsSpace(Char(s, i)) THEN SkipWs(s, i + 1) ELSE i

\* first position j >= i that does not hold a digit
RECURSIVE SkipDigits(_, _)
SkipDigits(s, i) ==
    IF i <= Len(s) /\ IsDigit(Char(s, i)) THEN SkipDigits(s, i + 1) ELSE i

\* first position j >= i that holds a double quote, 0 when there is none or
\* a control character comes first
RECURSIVE ClosingQuote(_, _)
ClosingQuote(s, i) ==
    IF i > Len(s) THEN 0
    ELSE IF Char(s, i) = "\"" THEN i
    ELSE IF Char(s, i) \in {"\n", "\t", "\r", "\\"} THEN 0
    ELSE ClosingQuote(s, i + 1)

\* the string literal whose opening quote is at position i
ParseString(s, i) ==
    LET j == ClosingQuote(s, i + 1)
    IN  IF j = 0 THEN JFail ELSE JOk(JStr(SubSeq(s, i + 1, j - 1)), j + 1)

RECURSIVE ParseValue(_, _)
RECURSIVE ParseElements(_, _, _)
RECURSIVE ParseMembers(_, _, _)

\* the elements of an array, the first of them starting at or after i
ParseElements(s, i, acc) ==
    LET r == ParseValue(s, i)
        j == SkipWs(s, r.pos)
    IN  IF ~r.ok \/ j > Len(s) THEN JFail
        ELSE IF Char(s, j) = "," THEN ParseElements(s, j + 1, Append(acc, r.val))
        ELSE IF Char(s, j) = "]" THEN JOk(JArr(Append(acc, r.val)), j + 1)
        ELSE JFail

\* the members of an object, the first key starting at or after i
ParseMembers(s, i, acc) ==
    LET k == SkipWs(s, i)
        key == IF k <= Len(s) /\ Char(s, k) = "\"" THEN ParseString(s, k) ELSE JFail
        c == SkipWs(s, key.pos)
        r == IF key.ok /\ c <= Len(s) /\ Char(s, c) = ":"
             THEN ParseValue(s, c + 1)
             ELSE JFail
        j == SkipWs(s, r.pos)
        \* a repeated key keeps its last value
        next == (key.val.v :> r.val) @@ acc
    IN  IF ~r.ok \/ j > Len(s) THEN JFail
        ELSE IF Char(s, j) = "," THEN ParseMembers(s, j + 1, next)
        ELSE IF Char(s, j) = "}" THEN JOk(JObj(next), j + 1)
        ELSE JFail

\* the JSON value starting at or after position i
ParseValue(s, i) ==
    LET j == SkipWs(s, i)
    IN  IF j > Len(s) THEN JFail
        ELSE IF Char(s, j) = "["
        THEN LET e == SkipWs(s, j + 1)
             IN  IF e <= Len(s) /\ Char(s, e) = "]"
                 THEN JOk(JArr(<<>>), e + 1)
                 ELSE ParseElements(s, j + 1, <<>>)
        ELSE IF Char(s, j) = "{"
        THEN LET e == SkipWs(s, j + 1)
             IN  IF e <= Len(s) /\ Char(s, e) = "}"
                 THEN JOk(JObj(<<>>), e + 1)
                 ELSE ParseMembers(s, j + 1, <<>>)
        ELSE IF Char(s, j) = "\"" THEN ParseString(s, j)
        ELSE IF IsDigit(Char(s, j))
        THEN JOk(JNum(SubSeq(s, j, SkipDigits(s, j) - 1)), SkipDigits(s, j))
        ELSE IF j + 3 <= Len(s) /\ SubSeq(s, j, j + 3) = "null"
        THEN JOk(JNull, j + 4)
        ELSE JFail

\* json.loads(s): ok is FALSE where json.JSONDecodeError is raised
JsonLoads(s) ==
    LET r == ParseValue(s, 1)
    IN  IF r.ok /\ SkipWs(s, r.pos) = Len(s) + 1 THEN r ELSE JFail

-----------------------------------------------------------------------------
(* The Question schema *)

\* Optional[str]: None, or a string
NoneStr == [none |-> TRUE, v |-> ""]

SomeStr(x) == [none |-> FALSE, v |-> x]

\* the fields declared "str" without a default
RequiredFields == {"question", "question_type", "difficulty", "subject"}

Has(obj, key) == key \in DOMAIN obj

IsStrArray(val) ==
    /\ val.t = "arr"
    /\ \A i \in 1..Len(val.v) : val.v[i].t = "str"

\* Question(q) raises nothing: q is a mapping, every required field is a
\* string, and the optional fields are absent, null or of their type
QuestionAccepts(q) ==
    /\ q.t = "obj"
    /\ \A f \in RequiredFields : Has(q.v, f) /\ q.v[f].t = "str"
    /\ Has(q.v, "options") =>
           (q.v["options"].t = "null" \/ IsStrArray(q.v["options"]))
    /\ Has(q.v, "correct_answer") =>
           q.v["correct_answer"].t \in {"null", "str"}

\* Question(q)
ToQuestion(q) ==
    [ question |-> q.v["question"].v,
      question_type |-> q.v["question_type"].v,
      options |->
          IF Has(q.v, "options") /\ q.v["options"].t = "arr"
          THEN SomeList([i \in 1..Len(q.v["options"].v) |-> q.v["options"].v[i].v])
          ELSE NoneList,
      correct_answer |->
          IF Has(q.v, "correct_answer") /\ q.v["correct_answer"].t = "str"
          THEN SomeStr(q.v["correct_answer"].v)
          ELSE NoneStr,
      difficulty |-> q.v["difficulty"].v,
      subject |-> q.v["subject"].v ]

-----------------------------------------------------------------------------
(* generate_questions_from_content *)

ContentLimit == 8000

TextPreviewLen == 500

ResponsePreviewLen == 200

ParseErrorPreviewLen == 300

DefaultQuestionTypes == <<"multiple_choice", "short_answer", "true_false">>

\* the arguments of a prompt that embeds the whole content
PromptArgsWholeContent(content, req, types) ==
    [ subject |-> req.subject,
      num_questions |-> req.num_questions,
      difficulty |-> req.difficulty,
      question_types |->
          Join(", ", IF types.none THEN DefaultQuestionTypes ELSE types.v),
      content |-> content ]

\* the arguments of prompt_template.format_messages
PromptArgs(content, req, types) ==
    [ subject |-> req.subject,
      num_questions |-> req.num_questions,
      difficulty |-> req.difficulty,
      question_types |->
          Join(", ", IF types.none THEN DefaultQuestionTypes ELSE types.v),
      content |-> Prefix(content, ContentLimit) ]

\* JsonSlice with end_idx taken without its "+ 1"
JsonSliceExclusive(response_text) ==
    Slice(response_text, Find(response_text, "["), RFind(response_text, "]"))

\* response_text[start_idx:end_idx], first "[" to last "]"
JsonSlice(response_text) ==
    Slice(response_text, Find(response_text, "["), RFind(response_text, "]") + 1)

\* start_idx != -1 and end_idx != 0
HasJsonArray(response_text) ==
    Find(response_text, "[") # -1 /\ RFind(response_text, "]") + 1 # 0

\* TextPreview with ">=" for ">"
TextPreviewInclusive(content) ==
    IF Len(content) >= TextPreviewLen
    THEN Prefix(content, TextPreviewLen) \o "..."
    ELSE content

\* content[:500] + "..." if len(content) > 500 else content
TextPreview(content) ==
    IF Len(content) > TextPreviewLen
    THEN Prefix(content, TextPreviewLen) \o "..."
    ELSE content

\* ResponsePreview cut at half the length
ResponsePreviewShort(response_text) == Prefix(response_text, ResponsePreviewLen \div 2)

\* response_text[:200]
ResponsePreview(response_text) == Prefix(response_text, ResponsePreviewLen)

\* str(e) of an HTTPException
StrHTTPException(e) == Str(e.status_code) \o ": " \o e.detail

\* "except Exception as e" around the body: every exception that is not a
\* json.JSONDecodeError, the HTTPExceptions raised in the body included
GenerationError(msg) ==
    HTTPException(HTTP_500_INTERNAL_SERVER_ERROR,
                  "Error generating questions: " \o msg)

\* str(e) of the json.JSONDecodeError
JsonDecodeMsg == "Expecting value: line 1 column 1 (char 0)"

\* str(e) of what Question(q) raises
QuestionErrorMsg(q) ==
    IF q.t = "obj"
    THEN "1 validation error for Question"
    ELSE "app.schemas.question.Question() argument after ** must be a mapping"

\* a response whose total is the number of questions asked for
QuestionGenerationResponseRequestedTotal(subject, questions, text_preview) ==
    [ kind |-> "ok",
      status_code |-> 200,
      detail |-> "",
      response |->
          [ success |-> TRUE,
            subject |-> subject,
            total_questions |-> request.num_questions,
            questions |-> questions,
            extracted_text_preview |-> text_preview ] ]

QuestionGenerationResponse(subject, questions, text_preview) ==
    [ kind |-> "ok",
      status_code |-> 200,
      detail |-> "",
      response |->
          [ success |-> TRUE,
            subject |-> subject,
            total_questions |-> Len(questions),
            questions |-> questions,
            extracted_text_preview |-> text_preview ] ]

\* a generation that leaves out the objects Question(q) rejects and returns
\* the questions of the others
GenerationResultSkipsRejected(content, subject, raw) ==
    LET response_text == Strip(raw)
        parsed == JsonLoads(JsonSlice(response_text))
        kept == SelectSeq(parsed.val.v, QuestionAccepts)
    IN  IF response_text = "" \/ ~HasJsonArray(response_text) \/ ~parsed.ok
        THEN GenerationError("")
        ELSE QuestionGenerationResponse(
                 subject, [i \in 1..Len(kept) |-> ToQuestion(kept[i])],
                 TextPreview(content))

\* what the function returns or raises once llm.invoke has returned raw
GenerationResult(content, subject, raw) ==
    LET response_text == Strip(raw)
        parsed == JsonLoads(JsonSlice(response_text))
        questions_data == parsed.val.v
        bad == { i \in 1..Len(questions_data) : ~QuestionAccepts(questions_data[i]) }
    IN  IF response_text = ""
        THEN GenerationError(StrHTTPException(
                 HTTPException(HTTP_500_INTERNAL_SERVER_ERROR,
                               "LLM returned an empty response")))
        ELSE IF ~HasJsonArray(response_text)
        THEN GenerationError(StrHTTPException(
                 HTTPException(HTTP_500_INTERNAL_SERVER_ERROR,
                     "Could not find JSON array in response. Response preview: "
                         \o ResponsePreview(response_text))))
        ELSE IF ~parsed.ok
        THEN HTTPException(HTTP_500_INTERNAL_SERVER_ERROR,
                 "Failed to parse generated questions: " \o JsonDecodeMsg
                     \o ". Response was: "
                     \o Prefix(response_text, ParseErrorPreviewLen))
        ELSE IF bad # {}
        THEN GenerationError(QuestionErrorMsg(
                 questions_data[CHOOSE i \in bad : \A j \in bad : i <= j]))
        ELSE QuestionGenerationResponse(
                 subject,
                 [i \in 1..Len(questions_data) |-> ToQuestion(questions_data[i])],
                 TextPreview(content))

\* str(e) of an exception raised by llm.invoke
LlmErrors == { "504 Deadline Exceeded", "429 Resource exhausted" }

\* llm.invoke(messages) returns raw, one of outputs
LlmReturns(outputs) ==
    /\ pc = "generate"
    /\ \E raw \in outputs :
           /\ llm_raw' = raw
           /\ result' = GenerationResult(extracted_content, request.subject, raw)
    /\ prompt' = PromptArgs(extracted_content, request, types_list)
    /\ log' = Append(log, Ev("llm", 0, 0))
    /\ pc' = "done"
    /\ UNCHANGED <<running, tasks>>
    /\ UNCHANGED <<entry, images, cursor, request, types_list, idx, attempt,
                   all_extracted_text, extracted_content>>

\* llm.invoke(messages) raises, and a transient failure is tried again
LlmFailsRetried ==
    /\ pc = "generate"
    /\ \E error_msg \in LlmErrors :
           /\ result' = GenerationError(error_msg)
           /\ pc' = IF IsTransient(error_msg) THEN "generate" ELSE "done"
    /\ prompt' = PromptArgs(extracted_content, request, types_list)
    /\ log' = Append(log, Ev("llm", 0, 0))
    /\ UNCHANGED <<running, tasks>>
    /\ UNCHANGED <<entry, images, cursor, request, types_list, idx, attempt,
                   all_extracted_text, extracted_content, llm_raw>>

\* llm.invoke(messages) raises
LlmFails ==
    /\ pc = "generate"
    /\ \E error_msg \in LlmErrors : result' = GenerationError(error_msg)
    /\ prompt' = PromptArgs(extracted_content, request, types_list)
    /\ log' = Append(log, Ev("llm", 0, 0))
    /\ pc' = "done"
    /\ UNCHANGED <<running, tasks>>
    /\ UNCHANGED <<entry, images, cursor, request, types_list, idx, attempt,
                   all_extracted_text, extracted_content, llm_raw>>

-----------------------------------------------------------------------------
(* Model outputs: JSON documents written out from question records, with   *)
(* text around them, and outputs that hold no usable array                 *)

QShort ==
    [ question |-> "Q", question_type |-> "short_answer", options |-> NoneList,
      correct_answer |-> SomeStr("A"), difficulty |-> "easy", subject |-> "Math" ]

QChoice ==
    [ question |-> "Pick [one]", question_type |-> "multiple_choice",
      options |-> SomeList(<<"A. 1", "B. 2", "C. 3", "D. 4">>),
      correct_answer |-> SomeStr("B. 2"), difficulty |-> "hard", subject |-> "Math" ]

QNoAnswer ==
    [ question |-> "True?", question_type |-> "true_false", options |-> NoneList,
      correct_answer |-> NoneStr, difficulty |-> "medium", subject |-> "Physics" ]

\* a true/false question for which the model wrote its two choices out
QTrueFalse ==
    [ question |-> "Is it?", question_type |-> "true_false",
      options |-> SomeList(<<"True", "False">>),
      correct_answer |-> SomeStr("True"), difficulty |-> "easy", subject |-> "Math" ]

Quoted(x) == "\"" \o x \o "\""

DumpStrings(l) == "[" \o Join(", ", [i \in 1..Len(l) |-> Quoted(l[i])]) \o "]"

\* the JSON object of a question; a field that is None is left out
DumpQuestion(q) ==
    "{\"question\":" \o Quoted(q.question)
        \o ",\"question_type\":" \o Quoted(q.question_type)
        \o (IF q.options.none THEN "" ELSE ",\"options\":" \o DumpStrings(q.options.v))
        \o (IF q.correct_answer.none THEN ""
            ELSE ",\"correct_answer\":" \o Quoted(q.correct_answer.v))
        \o ",\"difficulty\":" \o Quoted(q.difficulty)
        \o ",\"subject\":" \o Quoted(q.subject) \o "}"

\* the JSON object of a question that has an answer, written without the
\* field f
DumpQuestionWithout(q, f) ==
    LET members ==
            (IF f = "question" THEN "" ELSE ",\"question\":" \o Quoted(q.question))
            \o (IF f = "question_type" THEN ""
                ELSE ",\"question_type\":" \o Quoted(q.question_type))
            \o (IF f = "correct_answer" THEN ""
                ELSE ",\"correct_answer\":" \o Quoted(q.correct_answer.v))
            \o (IF f = "difficulty" THEN "" ELSE ",\"difficulty\":" \o Quoted(q.difficulty))
            \o (IF f = "subject" THEN "" ELSE ",\"subject\":" \o Quoted(q.subject))
    IN  "{" \o SubSeq(members, 2, Len(members)) \o "}"

\* the JSON array of a list of questions
DumpQuestions(qs) ==
    "[" \o Join(",\n ", [i \in 1..Len(qs) |-> DumpQuestion(qs[i])]) \o "]"

QuestionLists ==
    { <<>>, <<QShort>>, <<QChoice, QShort>>, <<QShort, QChoice>>,
      <<QNoAnswer, QChoice, QNoAnswer>>, <<QChoice, QTrueFalse>> }

\* text around the array
Noise == { "", "noise", "trailing", " Here you go] :\n~~~json\n", "\n~~~ [done \n" }

ArrayOutputs ==
    { p \o DumpQuestions(qs) \o x : p \in Noise, qs \in QuestionLists, x \in Noise }

OtherOutputs ==
    { "", "  \n ", "I cannot help with that.", "  no json here \n",
      "closing ] only", "[ opening only", "] reversed [",
      Rep("z", 250), " " \o Rep("w", 199) \o "[",
      "[{\"question\":\"Q\"}]", "[1, 2]", "[{\"question\": }]",
      "see [1]: " \o DumpQuestions(<<QShort>>) }

\* the fields the prompt asks for in every object
ContractFields == {"question", "question_type", "correct_answer", "difficulty", "subject"}

\* arrays of a well-formed object and an object that lacks one field
MissingFieldOutputs ==
    { "[" \o DumpQuestion(QChoice) \o ", " \o DumpQuestionWithout(QShort, f) \o "]" :
          f \in ContractFields }
    \cup { "[" \o DumpQuestionWithout(QShort, "subject") \o ", "
               \o DumpQuestion(QChoice) \o "]" }

LLMOutputs == ArrayOutputs \cup OtherOutputs \cup MissingFieldOutputs

\* the outputs followed when the whole pipeline runs
PipelineOutputs ==
    { "noise" \o DumpQuestions(<<QShort>>) \o "trailing", "I cannot help with that." }

-----------------------------------------------------------------------------
(* The requests *)

Subjects == { "Physics" }

NumQuestions == { 0, 10, 51 }

Difficulties == { "medium", "impossible" }

\* the question_types form field of the route
TypeForms == { "multiple_choice,short_answer,true_false", "multiple_choice, essay", "" }

\* the question_types argument of a direct call of the pipeline
TypeLists == { NoneList, SomeList(<<"short_answer", "essay">>) }

Request(subject, num_questions, difficulty, question_types) ==
    [ subject |-> subject, num_questions |-> num_questions,
      difficulty |-> difficulty, question_types |-> question_types ]

\* the content handed to a direct call of generate_questions_from_content
Contents ==
    { "ab", Rep("c", 499), Rep("c", 500), Rep("c", 501),
      "a" \o Rep("c", 7998) \o "z", "a" \o Rep("c", 7999) \o "z" }

InitCommon ==
    /\ idx = 0
    /\ attempt = 0
    /\ all_extracted_text = <<>>
    /\ prompt = PromptArgs("", Request("", 0, "", ""), NoneList)
    /\ llm_raw = ""
    /\ result = NoResult
    /\ log = <<>>

\* a request arrives at the route, or the pipeline is called directly
Init ==
    /\ InitCommon
    /\ running = "none"
    /\ tasks = <<>>
    /\ entry \in {"route", "pipeline"}
    /\ images \in Batches
    /\ cursor = [i \in 1..Len(images) |-> 0]
    /\ extracted_content = ""
    /\ \E s \in Subjects, n \in NumQuestions, d \in Difficulties :
           IF entry = "route"
           THEN /\ pc = "route"
                /\ types_list = NoneList
                /\ \E f \in TypeForms : request = Request(s, n, d, f)
           ELSE /\ pc = "pipeline"
                /\ types_list \in TypeLists
                /\ request = Request(s, n, d, "")

Next ==
    \/ RouteRejects
    \/ RouteCalls
    \/ PipelineRejects
    \/ PipelineExtracts
    \/ DecodeFails
    \/ OcrFails
    \/ OcrSucceeds
    \/ Backoff
    \/ ExtractReturns
    \/ LlmReturns(PipelineOutputs)
    \/ LlmFails

Spec == Init /\ [][Next]_vars

\* generate_questions_from_content is called directly
InitGen ==
    /\ InitCommon
    /\ running = "none"
    /\ tasks = <<>>
    /\ entry = "generate"
    /\ images = <<>>
    /\ cursor = <<>>
    /\ pc = "generate"
    /\ extracted_content \in Contents
    /\ types_list \in TypeLists
    /\ \E s \in Subjects, n \in NumQuestions, d \in Difficulties :
           request = Request(s, n, d, "")

NextGen ==
    \/ LlmReturns(LLMOutputs)
    \/ LlmFails

GenSpec == InitGen /\ [][NextGen]_vars

-----------------------------------------------------------------------------
(* Two requests on one event loop.  extract_text_from_images is a          *)
(* coroutine: the thread of the loop executes one coroutine at a time, and *)
(* a coroutine gives the thread up only at an await.  The calls            *)
(* vision_model.generate_content and time.sleep are plain calls: the       *)
(* thread stays with the coroutine until they return.                      *)

Tasks == {"A", "B"}

\* the coroutine t can be executed: the thread is free, or already with t
CanRun(t) == running \in {"none", t}

\* the thread after an await of t: given up when the awaited call
\* suspended, kept when it completed at once
AfterAwait(t) == {"none", t}

Task(n) ==
    [pc |-> "read", idx |-> 0, attempt |-> 0, images |-> n, sleep_left |-> 0,
     failed |-> FALSE]

\* await image_file.read()
Read(t) ==
    /\ tasks[t].pc = "read"
    /\ CanRun(t)
    /\ tasks' = [tasks EXCEPT ![t].pc = "ocr"]
    /\ running' \in AfterAwait(t)

\* Image.open(...) and the start of vision_model.generate_content(...)
OcrCall(t) ==
    /\ tasks[t].pc = "ocr"
    /\ CanRun(t)
    /\ tasks' = [tasks EXCEPT ![t].pc = "ocr_wait"]
    /\ running' = t

\* generate_content returns; the chunk is appended
OcrReturns(t) ==
    /\ tasks[t].pc = "ocr_wait"
    /\ tasks' = [tasks EXCEPT ![t].pc = "seek_ok"]
    /\ running' = t

\* generate_content raises: time.sleep(retry_delay) starts, or the
\* HTTPException ends the coroutine
OcrRaises(t) ==
    /\ tasks[t].pc = "ocr_wait"
    /\ \E error_msg \in OcrErrors :
           IF ShouldRetry(error_msg, tasks[t].attempt)
           THEN /\ tasks' = [tasks EXCEPT ![t].pc = "backoff",
                                          ![t].sleep_left = retry_delay]
                /\ running' = t
           ELSE /\ tasks' = [tasks EXCEPT ![t].pc = "done", ![t].failed = TRUE]
                /\ running' = "none"

\* a second of time.sleep(retry_delay) passes
Tick(t) ==
    /\ tasks[t].pc = "backoff"
    /\ tasks[t].sleep_left > 0
    /\ tasks' = [tasks EXCEPT ![t].sleep_left = @ - 1]
    /\ running' = t

\* time.sleep(retry_delay) returns
SleepReturns(t) ==
    /\ tasks[t].pc = "backoff"
    /\ tasks[t].sleep_left = 0
    /\ tasks' = [tasks EXCEPT ![t].pc = "seek_retry"]
    /\ running' = t

\* await image_file.seek(0); continue
SeekRetry(t) ==
    /\ tasks[t].pc = "seek_retry"
    /\ CanRun(t)
    /\ tasks' = [tasks EXCEPT ![t].pc = "read", ![t].attempt = @ + 1]
    /\ running' \in AfterAwait(t)

\* await image_file.seek(0); break: the next image, or the return
SeekOk(t) ==
    /\ tasks[t].pc = "seek_ok"
    /\ CanRun(t)
    /\ IF tasks[t].idx + 1 < tasks[t].images
       THEN /\ tasks' = [tasks EXCEPT ![t].pc = "read", ![t].idx = @ + 1,
                                      ![t].attempt = 0]
            /\ running' \in AfterAwait(t)
       ELSE /\ tasks' = [tasks EXCEPT ![t].pc = "done"]
            /\ running' = "none"

\* the steps of the coroutine t
TaskStep(t) ==
    \/ Read(t)
    \/ OcrCall(t)
    \/ OcrReturns(t)
    \/ OcrRaises(t)
    \/ Tick(t)
    \/ SleepReturns(t)
    \/ SeekRetry(t)
    \/ SeekOk(t)

UnchangedRequest ==
    UNCHANGED <<pc, entry, images, cursor, request, types_list, idx, attempt,
                all_extracted_text, extracted_content, prompt, llm_raw,
                result, log>>

InitLoop ==
    /\ InitCommon
    /\ pc = "loop"
    /\ entry = "loop"
    /\ images = <<>>
    /\ cursor = <<>>
    /\ extracted_content = ""
    /\ types_list = NoneList
    /\ request = Request("", 0, "", "")
    /\ running = "none"
    /\ tasks \in [Tasks -> { Task(n) : n \in 1..MaxImages }]

NextLoop ==
    \/ \E t \in Tasks : Read(t) /\ UnchangedRequest
    \/ \E t \in Tasks : OcrCall(t) /\ UnchangedRequest
    \/ \E t \in Tasks : OcrReturns(t) /\ UnchangedRequest
    \/ \E t \in Tasks : OcrRaises(t) /\ UnchangedRequest
    \/ \E t \in Tasks : Tick(t) /\ UnchangedRequest
    \/ \E t \in Tasks : SleepReturns(t) /\ UnchangedRequest
    \/ \E t \in Tasks : SeekRetry(t) /\ UnchangedRequest
    \/ \E t \in Tasks : SeekOk(t) /\ UnchangedRequest

LoopSpec == InitLoop /\ [][NextLoop]_vars

-----------------------------------------------------------------------------
(* Reading the log *)

\* the positions of the log that hold an event op of image k
Events(op, k) == { i \in 1..Len(log) : log[i].op = op /\ log[i].img = k }

\* the positions of the log that hold an event op
AllEvents(op) == { i \in 1..Len(log) : log[i].op = op }

\* extract_text_from_images has returned its text to the pipeline
ExtractReturned ==
    /\ pc \in {"generate", "done"}
    /\ Len(images) >= 1
    /\ \A k \in 1..Len(images) : Events("ok", k) # {}

\* the positions of s at which pat starts
Occurrences(s, pat) ==
    { i \in 1..(Len(s) - Len(pat) + 1) : SubSeq(s, i, i + Len(pat) - 1) = pat }

\* pat occurs in s at position i
OccursAt(s, i, pat) ==
    /\ i + Len(pat) - 1 <= Len(s)
    /\ SubSeq(s, i, i + Len(pat) - 1) = pat

\* the k-th smallest element of the set of numbers P
Nth(P, k) == CHOOSE p \in P : Cardinality({ q \in P : q < p }) = k - 1

-----------------------------------------------------------------------------
(* Claims *)

\* C1: when every image of a batch of N >= 1 images is extracted, the text
\* returned by extract_text_from_images holds exactly N "Image k" markers,
\* the k-th of them is "Image k", and the text of the k-th image follows it
\* directly.
C1_MarkersInInputOrder ==
    ExtractReturned =>
        LET P == Occurrences(extracted_content, "Image ")
        IN  /\ Cardinality(P) = Len(images)
            /\ \A k \in 1..Len(images) :
                   OccursAt(extracted_content, Nth(P, k),
                            "Image " \o Str(k) \o " ---\n"
                                \o OcrText(images[k].bytes) \o "\n")

\* a batch of two different images has been extracted
C1_Witness ==
    /\ ExtractReturned
    /\ Len(images) >= 2
    /\ OcrText(images[1].bytes) # OcrText(images[2].bytes)

\* the text returned when every OCR call succeeds at once: each image's
\* marker line and text, in input order, joined by a newline
RECURSIVE ImmediateText(_, _)
ImmediateText(imgs, k) ==
    IF k > Len(imgs) THEN ""
    ELSE "--- Image " \o Str(k) \o " ---\n" \o OcrText(imgs[k].bytes) \o "\n"
             \o (IF k < Len(imgs) THEN "\n" ELSE "")
             \o ImmediateText(imgs, k + 1)

\* C2: when some OCR calls failed transiently and every image was extracted
\* within its 3 attempts, the returned text is the text of the run in which
\* every OCR call succeeds on its first attempt.
C2_RetriesTransparent ==
    (ExtractReturned /\ AllEvents("transient") # {}) =>
        extracted_content = ImmediateText(images, 1)

\* an image was extracted on its third attempt and another on its second
C2_Witness ==
    /\ ExtractReturned
    /\ \E k, j \in 1..Len(images) :
           /\ \E i \in Events("ok", k) : log[i].n = 3
           /\ \E i \in Events("ok", j) : log[i].n = 2

\* C3: when the OCR call of image k fails transiently on all 3 attempts, the
\* batch ends with an HTTP 500 error whose message names image k, nothing is
\* returned and no generation call is made, whatever was extracted before.
C3_ExhaustedRetriesAbortBatch ==
    \A k \in 1..Len(images) :
        (\E i \in Events("transient", k) : log[i].n = 3) =>
            /\ pc = "done"
            /\ result.kind = "error"
            /\ result.status_code = 500
            /\ OccursAt(result.detail, 1,
                        "Error extracting text from image " \o Str(k) \o " after ")
            /\ extracted_content = ""
            /\ AllEvents("llm") = {}

\* the second image failed on all 3 attempts after the first was extracted
C3_Witness ==
    /\ Len(images) >= 2
    /\ Events("ok", 1) # {}
    /\ \E i \in Events("transient", 2) : log[i].n = 3 /\ log[i - 1].op = "ocr"

\* the validation rules of a request, as the specification lists them
AllowedMime == {"image/jpeg", "image/jpg", "image/png", "image/webp"}

AllowedDifficulty == {"easy", "medium", "hard"}

AllowedQuestionType == {"multiple_choice", "short_answer", "true_false"}

BadMime == \E i \in 1..Len(images) : images[i].content_type \notin AllowedMime

BadDifficulty == request.difficulty \notin AllowedDifficulty

\* the question types the request asks for: the comma-separated form field
\* of the route, or the list handed to the pipeline
RequestedTypes ==
    IF entry = "route" THEN ParseTypes(request.question_types) ELSE types_list

BadQuestionType ==
    /\ ~RequestedTypes.none
    /\ \E i \in 1..Len(RequestedTypes.v) : RequestedTypes.v[i] \notin AllowedQuestionType

\* C4: a request that enters through the route and breaks a validation rule
\* (fewer than 2 images, a content type, the difficulty or a question type
\* outside the allowed values) ends with HTTP 400, and no image is read or
\* decoded and no OCR or generation call is made for it.
C4_RouteValidatesFirst ==
    (/\ entry = "route"
     /\ (Len(images) < 2 \/ BadMime \/ BadDifficulty \/ BadQuestionType)) =>
        /\ pc \in {"route", "pipeline", "done"}
        /\ log = <<>>
        /\ \A i \in 1..Len(images) : cursor[i] = 0
        /\ pc = "done" => (result.kind = "error" /\ result.status_code = 400)

\* a request that passes the checks of the route is rejected for a content
\* type by the pipeline
C4_Witness ==
    /\ entry = "route"
    /\ pc = "done"
    /\ Len(images) >= 2
    /\ ~BadDifficulty
    /\ ~BadQuestionType
    /\ BadMime
    /\ result.status_code = 400

\* C5: the pipeline, called with a valid non-empty batch and a difficulty or
\* a question type outside the allowed values, ends with HTTP 400 and makes
\* no OCR call and no generation call.
C5_PipelineValidatesEnums ==
    (/\ entry = "pipeline"
     /\ Len(images) >= 1
     /\ ~BadMime
     /\ (BadDifficulty \/ BadQuestionType)) =>
        /\ AllEvents("ocr") = {}
        /\ AllEvents("llm") = {}
        /\ pc = "done" => (result.kind = "error" /\ result.status_code = 400)

\* C6: when every image of the batch is extracted and the OCR text of each
\* is empty or white space, the pipeline ends with HTTP 400 "No text could
\* be extracted" and makes no generation call.
C6_BlankOcrIsNoContent ==
    (/\ ExtractReturned
     /\ \A k \in 1..Len(images) : Strip(OcrText(images[k].bytes)) = "") =>
        /\ pc = "done"
        /\ result.kind = "error"
        /\ result.status_code = 400
        /\ OccursAt(result.detail, 1, "No text could be extracted")
        /\ AllEvents("llm") = {}

\* the question lists whose questions carry every field of the output
\* contract
CompleteLists ==
    { qs \in QuestionLists : \A i \in 1..Len(qs) : ~qs[i].correct_answer.none }

\* C7: for a raw output prefix + J + suffix, J the JSON array of a list of
\* complete questions, no "[" in the prefix and no "]" in the suffix, the
\* text parsed is J, from the first "[" to the last "]", and the response
\* holds the questions of J, in their order and number.
C7_ArrayBetweenBrackets ==
    \A p \in Noise, qs \in CompleteLists, x \in Noise :
        (/\ pc = "done"
         /\ Find(p, "[") = -1
         /\ Find(x, "]") = -1
         /\ llm_raw = p \o DumpQuestions(qs) \o x) =>
            /\ JsonSlice(Strip(llm_raw)) = DumpQuestions(qs)
            /\ result.kind = "ok"
            /\ result.response.questions = qs
            /\ result.response.total_questions = Len(qs)

\* two questions were read from an array with text on both sides
C7_Witness ==
    /\ pc = "done"
    /\ llm_raw = " Here you go] :\n~~~json\n" \o DumpQuestions(<<QChoice, QShort>>)
                     \o "\n~~~ [done \n"
    /\ result.kind = "ok"
    /\ Len(result.response.questions) = 2

\* the raw output holds no "[" or no "]"
LacksBracket(raw) == Find(raw, "[") = -1 \/ Find(raw, "]") = -1

\* the generation call has been made and the request has ended
LlmReturned == pc = "done" /\ AllEvents("llm") # {}

\* C8, as claimed: for a non-empty raw output without "[" or without "]",
\* the call fails with the "Could not find JSON array" error whose message
\* includes the first 200 characters of the raw output.
C8_MalformedOfRawOutput ==
    (LlmReturned /\ llm_raw # "" /\ LacksBracket(llm_raw)) =>
        /\ result.kind = "error"
        /\ Contains(result.detail, "Could not find JSON array")
        /\ Contains(result.detail, Prefix(llm_raw, 200))

\* C8, amended: for a raw output that is not empty or white space and has
\* no "[" or no "]", the call fails with the "Could not find JSON array"
\* error (HTTP 500) whose message includes the first 200 characters of the
\* output with the white space around it removed; no questions are returned.
C8_MalformedOfTrimmedOutput ==
    (LlmReturned /\ Strip(llm_raw) # "" /\ LacksBracket(llm_raw)) =>
        /\ result.kind = "error"
        /\ result.status_code = 500
        /\ Contains(result.detail,
                    "Could not find JSON array in response. Response preview: "
                        \o Prefix(Strip(llm_raw), 200))

\* an output of 250 characters without brackets was rejected
C8_Witness ==
    /\ LlmReturned
    /\ Len(Strip(llm_raw)) > 200
    /\ LacksBracket(llm_raw)
    /\ result.kind = "error"

\* C9: in a successful response the preview is the extracted text when that
\* has at most 500 characters, and its first 500 characters followed by
\* "..." when it has more; it never has more than 503 characters.
C9_PreviewOfExtractedText ==
    result.kind = "ok" =>
        LET preview == result.response.extracted_text_preview
        IN  /\ Len(extracted_content) <= 500 => preview = extracted_content
            /\ Len(extracted_content) > 500 =>
                   preview = SubSeq(extracted_content, 1, 500) \o "..."
            /\ Len(preview) <= 503

\* a response was built from an extracted text of more than 500 characters
C9_Witness ==
    /\ result.kind = "ok"
    /\ ExtractReturned
    /\ Len(extracted_content) > 500
    /\ Len(result.response.extracted_text_preview) = 503

ExtractionFailed ==
    /\ pc = "done"
    /\ result.kind = "error"
    /\ OccursAt(result.detail, 1, "Error extracting text from image ")

\* the attempts made on image k that ended in a failure
FailedAttempts(k) == Events("transient", k) \cup Events("fatal", k)

\* C11: when extract_text_from_images fails, its error message names the
\* 1-based index of the image whose attempt failed last and the number of
\* attempts made on that image (1 when the first attempt failed for good,
\* 3 when the retries were used up).
C11_ErrorCarriesAttemptsMade ==
    ExtractionFailed =>
        LET k == idx + 1
            made == Cardinality(FailedAttempts(k))
        IN  OccursAt(result.detail, 1,
                     "Error extracting text from image " \o Str(k) \o " after "
                         \o Str(made) \o " attempts: ")

\* the numbers of questions a request may ask for, as the specification
\* and the unused schema QuestionGenerationRequest give them
AllowedNumQuestions == 1..50

\* C12: the generation capability is called only with a number of questions
\* in 1..50; a request with a number below 1 or above 50 ends with HTTP 400,
\* and no OCR call and no generation call is made for it.
C12_NumQuestionsInRange ==
    /\ AllEvents("llm") # {} => prompt.num_questions \in AllowedNumQuestions
    /\ request.num_questions \notin AllowedNumQuestions =>
           /\ AllEvents("ocr") = {}
           /\ AllEvents("llm") = {}
           /\ pc = "done" => (result.kind = "error" /\ result.status_code = 400)

\* C13: in every response returned, a question whose type is not
\* multiple_choice has no options, whatever the model wrote for it.
C13_OptionsOnlyForMultipleChoice ==
    result.kind = "ok" =>
        \A i \in 1..Len(result.response.questions) :
            LET q == result.response.questions[i]
            IN  q.question_type # "multiple_choice" => q.options.none

\* the elements of the JSON array read from the output of the model
ParsedArray == JsonLoads(JsonSlice(Strip(llm_raw))).val.v

\* C14: every response returned has success = true, the subject of the
\* request, and a total equal to the number of its questions, which is the
\* number of elements of the parsed JSON array, whatever number of questions
\* was asked for.
C14_ResponseTotals ==
    result.kind = "ok" =>
        LET r == result.response
        IN  /\ r.success = TRUE
            /\ r.subject = request.subject
            /\ r.total_questions = Len(r.questions)
            /\ Len(r.questions) = Len(ParsedArray)

\* a response of three questions was returned where ten were asked for
C14_Witness ==
    /\ result.kind = "ok"
    /\ request.num_questions = 10
    /\ Len(ParsedArray) = 3
    /\ result.response.total_questions = 3

\* C15: the generation capability is called at most once for a request, and
\* exactly once by the time a request whose images were all extracted to a
\* text that is not blank has ended; whatever the call returns or raises, the
\* request ends with it: the call is the last thing done, and no OCR call
\* and no second generation call follows it.
C15_GenerationCalledOnce ==
    /\ Cardinality(AllEvents("llm")) <= 1
    /\ (pc = "done" /\ ExtractReturned /\ ~NoContent(extracted_content)) =>
           Cardinality(AllEvents("llm")) = 1
    /\ AllEvents("llm") # {} =>
           /\ pc = "done"
           /\ log[Len(log)].op = "llm"
           /\ ExtractReturned

\* the generation call failed with a 504 after an OCR call had been retried,
\* and the request ended with that error
C15_Witness ==
    /\ LlmReturned
    /\ AllEvents("sleep") # {}
    /\ result.kind = "error"
    /\ Contains(result.detail, "504 Deadline Exceeded")
    /\ Cardinality(AllEvents("llm")) = 1

\* the generation call returned an output from which a JSON array was read
ArrayParsed ==
    /\ LlmReturned
    /\ HasJsonArray(Strip(llm_raw))
    /\ JsonLoads(JsonSlice(Strip(llm_raw))).ok

\* the element val of the array is no object, or an object without one of
\* the fields F
Lacks(val, F) == val.t # "obj" \/ \E f \in F : f \notin DOMAIN val.v

\* C16, as claimed: when an object of the parsed array lacks one of the
\* fields question, question_type, correct_answer, difficulty or subject,
\* the call fails and returns no response; a response never holds fewer
\* questions than the array has elements.
C16_AnyMissingFieldFails ==
    ArrayParsed =>
        LET arr == ParsedArray
        IN  /\ (\E i \in 1..Len(arr) :
                    Lacks(arr[i], {"question", "question_type", "correct_answer",
                                   "difficulty", "subject"})) =>
                   result.kind = "error"
            /\ result.kind = "ok" => Len(result.response.questions) = Len(arr)

\* C16, amended: when an object of the parsed array lacks one of the fields
\* question, question_type, difficulty or subject, the call fails with HTTP
\* 500 and returns no response, also when the other objects are well formed;
\* a response holds one question for each element of the array, in order,
\* and a question has no correct answer exactly when its object has none.
C16_MissingRequiredFieldFails ==
    ArrayParsed =>
        LET arr == ParsedArray
        IN  /\ (\E i \in 1..Len(arr) :
                    Lacks(arr[i], {"question", "question_type", "difficulty",
                                   "subject"})) =>
                   (result.kind = "error" /\ result.status_code = 500)
            /\ result.kind = "ok" =>
                   /\ Len(result.response.questions) = Len(arr)
                   /\ \A i \in 1..Len(arr) :
                          LET q == result.response.questions[i]
                              obj == arr[i].v
                          IN  /\ q.question = obj["question"].v
                              /\ q.correct_answer.none <=>
                                     ("correct_answer" \notin DOMAIN obj
                                          \/ obj["correct_answer"].t = "null")

\* the call failed for an array whose first object is well formed and whose
\* second object lacks the subject alone
C16_Witness ==
    /\ ArrayParsed
    /\ result.kind = "error"
    /\ LET arr == ParsedArray
       IN  /\ Len(arr) = 2
           /\ ~Lacks(arr[1], ContractFields)
           /\ Lacks(arr[2], {"subject"})
           /\ ~Lacks(arr[2], ContractFields \ {"subject"})

\* the coroutine t is ready to go on: it is at an await or between two
\* statements, not inside a call that has yet to return
Runnable(t) == tasks[t].pc \in {"read", "ocr", "seek_retry", "seek_ok"}

\* the coroutine t is inside time.sleep, or inside the OCR call
Waiting(t) == tasks[t].pc \in {"backoff", "ocr_wait"}

\* C17: with two requests on one event loop, while one is in its retry
\* delay or waiting on its OCR call, the other, when it is ready to go on,
\* can take a step.
C17_BackoffLeavesLoopFree ==
    \A a, b \in DOMAIN tasks :
        (a # b /\ Waiting(a) /\ Runnable(b)) => ENABLED TaskStep(b)

\* C18: a request with fewer than 2 images that enters through the route
\* ends with HTTP 400 there and never reaches the pipeline; the pipeline,
\* called directly, rejects the empty batch with HTTP 400 and takes a batch
\* of exactly 1 valid image through to extraction.
C18_MinimumBatchSizes ==
    /\ (entry = "route" /\ Len(images) < 2) =>
           /\ pc \in {"route", "done"}
           /\ log = <<>>
           /\ pc = "done" =>
                  /\ result.kind = "error"
                  /\ result.status_code = 400
                  /\ OccursAt(result.detail, 1, "At least 2 images are required")
    /\ (entry = "pipeline" /\ Len(images) = 0) =>
           /\ pc \in {"pipeline", "done"}
           /\ pc = "done" =>
                  (result.kind = "error" /\ result.status_code = 400)
    /\ (entry = "pipeline" /\ Len(images) = 1 /\ ~BadMime) =>
           /\ pc \notin {"route"}
           /\ pc = "done" =>
                  /\ Events("read", 1) # {}
                  /\ ~(result.kind = "error" /\ result.status_code = 400)

\* the pipeline, called with one image, returned a response
C18_Witness ==
    /\ entry = "pipeline"
    /\ Len(images) = 1
    /\ pc = "done"
    /\ result.kind = "ok"

\* C19: the content handed to the prompt is the first 8000 characters of
\* the extracted text, the whole text when it has no more; it never has more
\* than 8000 characters; the preview of the response is cut from the whole
\* extracted text.
C19_PromptContentTruncated ==
    AllEvents("llm") # {} =>
        /\ prompt.content =
               (IF Len(extracted_content) <= 8000 THEN extracted_content
                ELSE SubSeq(extracted_content, 1, 8000))
        /\ Len(prompt.content) <= 8000
        /\ result.kind = "ok" =>
               result.response.extracted_text_preview =
                   (IF Len(extracted_content) <= 500 THEN extracted_content
                    ELSE SubSeq(extracted_content, 1, 500) \o "...")

\* a response was returned for an extracted text of 8001 characters, of
\* which the prompt holds all but the last
C19_Witness ==
    /\ AllEvents("llm") # {}
    /\ Len(extracted_content) = 8001
    /\ Len(prompt.content) = 8000
    /\ extracted_content = prompt.content \o "z"
    /\ result.kind = "ok"

\* the failures after which image k is given up: a failure that is not
\* transient, or a transient failure of its 3rd attempt
FatalEvents(k) ==
    Events("fatal", k) \cup { i \in Events("transient", k) : log[i].n = 3 }

\* C20: once an image k is given up, the request has ended with the HTTP 500
\* error of the extraction: nothing is done after the failure, no image
\* after k is read or sent to OCR, no generation call is made and no text
\* is returned; and an image is attempted only when every image before it
\* was extracted.
C20_FatalAbortsBatch ==
    /\ \A k \in 1..Len(images) : \A i \in FatalEvents(k) :
           /\ i = Len(log)
           /\ pc = "done"
           /\ result.kind = "error"
           /\ result.status_code = 500
           /\ \A j \in (k + 1)..Len(images) :
                  Events("read", j) = {} /\ Events("ocr", j) = {}
           /\ AllEvents("llm") = {}
           /\ extracted_content = ""
    /\ \A k \in 2..Len(images) :
           Events("read", k) # {} =>
               /\ Events("ok", k - 1) # {}
               /\ FatalEvents(k - 1) = {}

\* the first of two images was given up on its second attempt, for a
\* failure that is not transient
C20_Witness ==
    /\ Len(images) >= 2
    /\ \E i \in Events("fatal", 1) : log[i].n = 2
    /\ pc = "done"

\* the failures recorded in the log, of any image
Failures == AllEvents("transient") \cup AllEvents("fatal")

\* the failure at position i of the log is followed by a delay and another
\* attempt
Retried(i) ==
    IF i < Len(log) THEN log[i + 1].op = "sleep" ELSE pc = "backoff"

\* C21: a failure of the OCR call is retried exactly when its text holds
\* "timeout" (in any case) or "504" and it is not the failure of a 3rd
\* attempt; a failure to decode the image is never retried and ends the
\* request after the one attempt.
C21_RetryOnlyTransientOcr ==
    \A i \in Failures :
        IF log[i - 1].op = "ocr"
        THEN Retried(i) <=> (log[i].op = "transient" /\ log[i].n < 3)
        ELSE /\ log[i - 1].op = "decode"
             /\ ~Retried(i)
             /\ log[i].n = 1
             /\ pc = "done"

\* C22: every attempt on an image reads from position 0, so it reads the
\* whole file; every delay and every successful OCR call is followed by a
\* seek to 0; and once extract_text_from_images has returned its text the
\* cursor of every image is at 0.
C22_CursorResetBeforeRetry ==
    /\ \A i \in AllEvents("read") :
           /\ log[i].n = 0
           /\ FileRead(images[log[i].img].bytes, log[i].n) = images[log[i].img].bytes
    /\ \A i \in AllEvents("sleep") \cup AllEvents("ok") :
           /\ i < Len(log)
           /\ log[i + 1].op = "seek"
           /\ log[i + 1].img = log[i].img
           /\ log[i + 1].n = 0
    /\ pc = "attempt" => cursor[idx + 1] = 0
    /\ (pc \in {"extracted", "generate"} \/ ExtractReturned) =>
           \A k \in 1..Len(images) : cursor[k] = 0

\* an image was extracted on its 3rd attempt, each of the 3 reads from 0
C22_Witness ==
    /\ ExtractReturned
    /\ \E k \in 1..Len(images) :
           /\ Cardinality(Events("read", k)) = 3
           /\ Len(images[k].bytes) > Len(ImageSignature)
           /\ cursor[k] = 0

\* the content type of the first image of the batch that is not allowed
FirstBadMime ==
    LET j == CHOOSE j \in 1..Len(images) :
                 /\ images[j].content_type \notin AllowedMime
                 /\ \A h \in 1..(j - 1) : images[h].content_type \in AllowedMime
    IN  images[j].content_type

\* C23: when an image at any position of the batch has a content type that
\* is not allowed, no image of the batch, the valid ones before it included,
\* is ever read, decoded or sent to OCR, and the request ends with HTTP 400;
\* the pipeline's error names the first content type that is not allowed.
C23_MimeCheckedForWholeBatch ==
    BadMime =>
        /\ log = <<>>
        /\ \A k \in 1..Len(images) : cursor[k] = 0
        /\ pc \in {"route", "pipeline", "done"}
        /\ pc = "done" => (result.kind = "error" /\ result.status_code = 400)
        /\ (pc = "done" /\ entry = "pipeline") =>
               OccursAt(result.detail, 1,
                        "Invalid file type: " \o FirstBadMime \o ". ")

\* the pipeline rejected a batch whose first image is valid and whose last
\* image is not
C23_Witness ==
    /\ entry = "pipeline"
    /\ pc = "done"
    /\ Len(images) >= 2
    /\ images[1].content_type \in AllowedMime
    /\ images[Len(images)].content_type \notin AllowedMime
    /\ result.status_code = 400

\* extract_text_from_images is running
Extracting == pc \in {"attempt", "backoff"}

\* the passes of the try block that may still be run, counted twice, less
\* one during a delay: a bound on the steps left to the function
Remaining ==
    IF Extracting
    THEN 2 * (3 * (Len(images) - idx) - attempt) - (IF pc = "backoff" THEN 1 ELSE 0)
    ELSE 0

\* image k has been left: a later image is being handled, or the function
\* has returned or raised
Left(k) == Events("read", k) # {} /\ (~Extracting \/ idx + 1 > k)

\* the attempts and OCR calls made so far are within their bounds, the
\* images are handled in input order, each image left was extracted or
\* given up, and the function ends with the text of every image or with
\* its error; an OCR call can return its text or raise, and a delay can end
C24_Bounded ==
    /\ \A k \in 1..Len(images) :
           /\ Cardinality(Events("read", k)) <= 3
           /\ Cardinality(Events("ocr", k)) <= 3
           /\ Left(k) => (Events("ok", k) # {} <=> FatalEvents(k) = {})
           /\ (Extracting /\ idx + 1 = k) =>
                  (Events("ok", k) = {} /\ FatalEvents(k) = {})
    /\ Cardinality(AllEvents("ocr")) <= 3 * Len(images)
    /\ \A i \in 1..(Len(log) - 1) :
           log[i + 1].op # "llm" => log[i].img <= log[i + 1].img
    /\ Extracting => (idx < Len(images) /\ attempt < 3 /\ Remaining > 0)
    /\ pc = "extracted" =>
           /\ Len(all_extracted_text) = Len(images)
           /\ \A k \in 1..Len(images) : Events("ok", k) # {}
    /\ (pc = "done" /\ AllEvents("read") # {} /\ AllEvents("llm") = {}) =>
           (ExtractionFailed /\ FatalEvents(idx + 1) # {})
    /\ (pc = "attempt"
           /\ CanDecode(FileRead(images[idx + 1].bytes, cursor[idx + 1]))) =>
           (ENABLED OcrSucceeds /\ ENABLED OcrFails)
    /\ pc = "backoff" => ENABLED Backoff

\* every step taken while the function runs brings it nearer to its end
C24_Progress == Extracting => Remaining' < Remaining

\* C24: extract_text_from_images, once each of its OCR calls returns, ends:
\* every step lowers a bound on the steps left and a step can always be
\* taken until then; no image has more than 3 attempts, at most 3*N OCR
\* calls are made for N images, the images are handled one after another in
\* input order, each is extracted or given up, and the function ends with
\* the text of all of them or with its error.
C24_ExtractionTerminates == []C24_Bounded /\ [][C24_Progress]_vars

\* the function ended after 3 OCR calls for each of two or more images
C24_Witness ==
    /\ Len(images) >= 2
    /\ ~Extracting
    /\ Cardinality(AllEvents("ocr")) = 3 * Len(images)

====
